---------------------------- MODULE Spec2Model ----------------------------
(***************************************************************************)
(* The transactional key-value store of replicache-client (src/kv): the    *)
(* Store / Read / Write contract of kv/mod.rs and its IndexedDB adapter    *)
(* kv/idbstore.rs, together with the behaviour of the IndexedDB engine the *)
(* adapter drives (transaction scheduling, auto-commit, abort, the         *)
(* per-request and per-transaction events).                                *)
(*                                                                         *)
(* A transaction slot t is one ReadTransaction or WriteTransaction (pc)    *)
(* and the IdbTransaction it wraps (bstate); slots are numbered in the     *)
(* order the engine created the IdbTransactions.                           *)
(***************************************************************************)
EXTENDS Naturals, Sequences, FiniteSets

\* ------------------------------------------------------------------ bounds
\* Number of Store::read / Store::write calls in one behaviour.
MaxTx == 3
\* Number of Store::write calls among them.
MaxWrites == 2
\* Number of Write::put calls in one behaviour.
MaxPuts == 2
\* Longest value (Vec<u8>) a caller puts.
MaxValLen == 1
\* The same four for behaviours in which transactions are also read
\* (has / get) and deleted from, and the number of has / get calls in one.
MaxRdTx == 2
MaxRdWrites == 1
MaxRdPuts == 2
MaxReads == 2
MaxRdOps == 3
\* Number of IdbStore::put / has / get calls in one behaviour of the store's
\* one-shot operations.
MaxStoreOps == 3
\* Number of Store::read / Store::write calls in a behaviour in which the
\* waits of commit and rollback are followed to their end.
MaxWaitTx == 2
\* Number of dispatch calls in one behaviour.
MaxCalls == 5

Larger(a, b) == IF a >= b THEN a ELSE b
Tx == 1..Larger(Larger(MaxTx, MaxWaitTx), Larger(MaxRdTx, MaxStoreOps))
\* Keys are non-empty text.
Keys == {"k1", "k2"}
\* 0xFF is not valid UTF-8.
Bytes == {255}
Vals == UNION {[1..n -> Bytes] : n \in 0..MaxValLen}

\* Option<Vec<u8>>: None is the empty tuple, Some(v) the one-element tuple
\* holding v, so that Some(empty value) differs from None.
None == <<>>
Some(v) == <<v>>
Option == {None} \cup {Some(v) : v \in Vals}

\* HashMap<String, Vec<u8>>::new()
EmptyMap == [k \in Keys |-> None]
MapKeys(m) == {k \in Keys : m[k] # None}

\* The tombstone Write::del stages for a key: not a value and not absence.
Tombstone == << <<>>, <<>> >>

\* What the object store holds for a key once the request made for a pending
\* entry has been executed: a put leaves its value, a delete leaves nothing.
Stored(x) == IF x = Tombstone THEN None ELSE x

\* enum WriteState
WriteState == {"Open", "Committed", "Aborted", "Errored"}

VARIABLES
    db,       \* the object store "chunks": key -> Option value, as committed
    nextTx,   \* the next unused slot
    nwrites,  \* Store::write calls made so far
    nputs,    \* Write::put calls made so far
    reqR,     \* futures of Store::read made and not yet resolved
    reqW,     \* futures of Store::write made and not yet resolved
    kind,     \* slot -> "none" | "read" | "write" | "put" (IdbStore::put)
    pc,       \* slot -> where the transaction object is
    pending,  \* WriteTransaction.pending
    cell,     \* WriteTransaction.pair.0, the WriteState
    events,   \* transaction events fired whose tx_callback task has not run
    bstate,   \* IdbTransaction: "none" | "live" | "committed" | "aborted"
    berr,     \* IdbTransaction.error() is Some
    bw,       \* writes executed inside the IdbTransaction, not yet committed
    reqs,     \* put requests of commit() the engine has not executed yet
    acked,    \* put requests whose onsuccess callback has sent on its oneshot
    applied,  \* how much of pending the IdbTransaction's commit put into db
    ret,      \* the latest return of a commit or rollback, with its context
    budget,   \* how many calls of each sort the callers make in this behaviour
    nreads,   \* has / get calls made so far
    rd,       \* the has / get request the engine has not answered yet
    rlast,    \* the latest return of a has / get, with its context
    sp,       \* the IdbStore::put call in flight
    refmap,   \* key -> value of the latest IdbStore::put that returned Ok
    lastop,   \* the latest put / del call on a transaction that still exists
    open_dbs, \* the names the dispatch registry holds a database for
    dlog,     \* the dispatch calls made so far, in order
    dresp,    \* the response to the latest dispatch call
    numbers,  \* the random bytes handed to uuid_from_numbers
    uuid      \* the string uuid_from_numbers returned

vars == <<db, nextTx, nwrites, nputs, reqR, reqW, kind, pc, pending, cell, events,
          bstate, berr, bw, reqs, acked, applied, ret,
          budget, nreads, rd, rlast, sp, refmap, lastop,
          open_dbs, dlog, dresp, numbers, uuid>>

\* What the transaction protocol of Store::read / Store::write leaves alone.
\* The dispatch registry and the uuid module, which no store operation touches.
apart == <<open_dbs, dlog, dresp, numbers, uuid>>
ext == <<budget, nreads, rd, rlast, sp, refmap, apart>>

ctl == <<nextTx, nwrites, nputs, reqR, reqW, kind>>
txobj == <<pending, lastop, cell, events>>
backend == <<db, bstate, berr, bw, reqs, acked, applied>>

NoRet ==
    [call |-> "none", res |-> "none", staged |-> FALSE,
     atCall |-> "none", ix |-> 0, state |-> "Open", err |-> FALSE,
     applied |-> "none"]

\* No has / get request is outstanding.
NoRd == [t |-> 0, k |-> "", op |-> "none", staged |-> None, store |-> FALSE]

\* No has / get has returned yet.
NoRead ==
    [t |-> 0, k |-> "", op |-> "none", ok |-> FALSE, found |-> FALSE, val |-> None,
     src |-> "none", staged |-> None, held |-> None, store |-> FALSE,
     again |-> FALSE, wasOk |-> FALSE, wasFound |-> FALSE, wasVal |-> None,
     wasOp |-> "none"]

\* No put / del was called on a transaction that still exists.
NoOp == [t |-> 0, k |-> "", x |-> None]

\* No dispatch call has been answered yet.
NoResp == [rpc |-> "none", db |-> "", res |-> "none", err |-> "none", list |-> <<>>]

\* uuid_from_numbers has not returned.
NoUuid == <<"none">>

\* No IdbStore::put is in flight.
NoPut == [t |-> 0, k |-> "", v |-> <<>>, res |-> "none"]

\* tx: read() / write() calls; writes: write() calls; puts: put / del calls;
\* reads: has / get calls; ops: put, del, has and get calls together.
WriteBudget ==
    [tx |-> MaxTx, writes |-> MaxWrites, puts |-> MaxPuts, reads |-> 0,
     ops |-> MaxPuts]
ReadBudget ==
    [tx |-> MaxRdTx, writes |-> MaxRdWrites, puts |-> MaxRdPuts, reads |-> MaxReads,
     ops |-> MaxRdOps]
WaitBudget ==
    [tx |-> MaxWaitTx, writes |-> MaxWrites, puts |-> MaxPuts, reads |-> 0,
     ops |-> MaxPuts]
StoreBudget ==
    [tx |-> MaxStoreOps, writes |-> 0, puts |-> 0, reads |-> 0, ops |-> 0]

\* An opened database with no transaction yet.
Opened ==
    /\ nextTx = 1
    /\ nwrites = 0
    /\ nputs = 0
    /\ reqR = 0
    /\ reqW = 0
    /\ kind = [t \in Tx |-> "none"]
    /\ pc = [t \in Tx |-> "none"]
    /\ pending = [t \in Tx |-> EmptyMap]
    /\ cell = [t \in Tx |-> "Open"]
    /\ events = [t \in Tx |-> <<>>]
    /\ bstate = [t \in Tx |-> "none"]
    /\ berr = [t \in Tx |-> FALSE]
    /\ bw = [t \in Tx |-> EmptyMap]
    /\ reqs = [t \in Tx |-> {}]
    /\ acked = [t \in Tx |-> {}]
    /\ applied = [t \in Tx |-> "none"]
    /\ ret = NoRet
    /\ nreads = 0
    /\ rd = NoRd
    /\ rlast = NoRead
    /\ sp = NoPut
    /\ refmap = EmptyMap
    /\ lastop = NoOp
    /\ open_dbs = {}
    /\ dlog = <<>>
    /\ dresp = NoResp
    /\ numbers = <<>>
    /\ uuid = NoUuid

\* The state after IdbStore::new, for callers that open, write, commit and
\* roll back transactions.
Init == Opened /\ db = EmptyMap /\ budget = WriteBudget

OpenReaders == {t \in Tx : kind[t] = "read" /\ pc[t] = "open"}
\* A WriteTransaction is open from the moment write() resolves until commit or
\* rollback returns (or it is dropped).
OpenWriters ==
    {t \in Tx : kind[t] = "write"
                /\ pc[t] \in {"open", "commit_puts", "commit_wait", "rollback_wait"}}

\* ------------------------------------------------------- Store::read / write
\* store.read() / store.write(): the call makes the future; nothing runs
\* until the caller polls it.
StoreReadRequest ==
    /\ nextTx + reqR + reqW <= budget.tx
    /\ reqR' = reqR + 1
    /\ UNCHANGED <<db, nextTx, nwrites, nputs, reqW, kind, pc, txobj, bstate, berr, bw,
                   reqs, acked, applied, ret>>
    /\ UNCHANGED ext

StoreWriteRequest ==
    /\ nextTx + reqR + reqW <= budget.tx
    /\ nwrites < budget.writes
    /\ nwrites' = nwrites + 1
    /\ reqW' = reqW + 1
    /\ UNCHANGED <<db, nextTx, nputs, reqR, kind, pc, txobj, bstate, berr, bw,
                   reqs, acked, applied, ret>>
    /\ UNCHANGED ext

\* A read gate that admits one reader at a time.
ReadGateExclusive == OpenReaders = {}

\* What a polled future of Store::read waits for before it resolves: nothing,
\* the body of IdbStore::read has no suspension point.
ReadGate == TRUE

\* A write gate that counts readers in and never counts them out.
WriteGateLeak == \A t \in Tx : kind[t] # "read"

\* What a polled future of Store::write waits for before it resolves: nothing.
WriteGate == TRUE

\* IdbStore::read, ReadTransaction::new: idb.transaction_with_str(OBJECT_STORE)
\* creates a readonly IdbTransaction.
StoreReadComplete ==
    /\ reqR > 0
    /\ ReadGate
    /\ reqR' = reqR - 1
    /\ nextTx' = nextTx + 1
    /\ kind' = [kind EXCEPT ![nextTx] = "read"]
    /\ pc' = [pc EXCEPT ![nextTx] = "open"]
    /\ bstate' = [bstate EXCEPT ![nextTx] = "live"]
    /\ UNCHANGED <<db, nwrites, nputs, reqW, txobj, berr, bw, reqs, acked, applied, ret>>
    /\ UNCHANGED ext

\* IdbStore::write, WriteTransaction::new: a readwrite IdbTransaction,
\* WriteState::Open, an empty pending map and the three event callbacks.
StoreWriteComplete ==
    /\ reqW > 0
    /\ WriteGate
    /\ reqW' = reqW - 1
    /\ nextTx' = nextTx + 1
    /\ kind' = [kind EXCEPT ![nextTx] = "write"]
    /\ pc' = [pc EXCEPT ![nextTx] = "open"]
    /\ bstate' = [bstate EXCEPT ![nextTx] = "live"]
    /\ cell' = [cell EXCEPT ![nextTx] = "Open"]
    /\ pending' = [pending EXCEPT ![nextTx] = EmptyMap]
    /\ UNCHANGED lastop
    /\ UNCHANGED <<db, nwrites, nputs, reqR, events, berr, bw, reqs, acked, applied, ret>>
    /\ UNCHANGED ext

\* A has / get future borrows the transaction it was called on until it
\* returns: the transaction cannot be dropped or consumed meanwhile.
Borrowed(t) == rd.t = t

\* drop(rt): the handle goes, the IdbTransaction is left to the engine.
ReadDrop(t) ==
    /\ kind[t] = "read" /\ pc[t] = "open"
    /\ ~Borrowed(t)
    /\ pc' = [pc EXCEPT ![t] = "dropped"]
    /\ UNCHANGED <<db, nextTx, nwrites, nputs, reqR, reqW, kind, txobj, bstate, berr, bw,
                   reqs, acked, applied, ret>>
    /\ UNCHANGED ext

\* ------------------------------------------------------ the IndexedDB engine
\* An engine that runs the requests of every live transaction at once.
CanRunUnordered(t) == bstate[t] = "live"

\* The engine serialises the transactions of one object store: a readwrite
\* transaction starts only when every transaction created before it has
\* finished, a readonly one when every readwrite transaction created before
\* it has finished. Requests run only in a started transaction.
CanRun(t) ==
    /\ bstate[t] = "live"
    /\ \A u \in Tx :
          (u < t /\ bstate[u] = "live") => (kind[u] = "read" /\ kind[t] = "read")

\* The tx_callback closures live in WriteTransaction.callbacks: an event of the
\* IdbTransaction reaches its closure only while the WriteTransaction exists.
CallbacksAlive(t) ==
    /\ kind[t] = "write"
    /\ pc[t] \in {"open", "commit_puts", "commit_wait", "rollback_wait"}

\* Something of the program waits for the end of IdbTransaction t: an open
\* WriteTransaction, or an IdbStore::put that has not returned.
Listening(t) ==
    \/ CallbacksAlive(t)
    \/ kind[t] = "put" /\ pc[t] \in {"put_wait", "done_wait"}

\* The value of the put request made for key k in transaction t:
\* Uint8Array::from(value) of IdbStore::put, or of the pending entry in commit.
Requested(t, k) == IF kind[t] = "put" THEN Some(sp.v) ELSE pending[t][k]

\* The requests among rs whose error event sends on their oneshot:
\* IdbStore::put sets onerror on its request, commit sets onsuccess only.
ErrAcked(t, rs) == IF kind[t] = "put" THEN rs ELSE {}

\* An event that reaches the cell only when a commit or rollback is already
\* waiting on it (a notification with no state behind it).
FireAtWaiterOnly(t, evs) ==
    IF pc[t] \in {"commit_wait", "rollback_wait"} THEN events[t] \o evs ELSE events[t]

\* The engine fires the transaction events evs at the closures oncomplete /
\* onabort / onerror hold; each closure spawns its task.
Fire(t, evs) == IF CallbacksAlive(t) THEN events[t] \o evs ELSE events[t]

\* The task tx_callback spawns: lock, *state = new_state, notify_one.
TxCallback(t) ==
    /\ events[t] # <<>>
    /\ cell' = [cell EXCEPT ![t] = Head(events[t])]
    /\ events' = [events EXCEPT ![t] = Tail(events[t])]
    /\ UNCHANGED <<ctl, pc, pending, lastop, backend, ret>>
    /\ UNCHANGED ext

\* What a commit that writes w does for a transaction that staged p.
Applied(w, p) ==
    IF w = EmptyMap THEN "none" ELSE IF w = p THEN "all" ELSE "part"

\* A started transaction with no request outstanding commits by itself once
\* control is back in the event loop; its writes become the store's contents
\* in one step and the complete event is fired.
BackendComplete(t) ==
    /\ CanRun(t)
    /\ reqs[t] = {}
    /\ rd.t # t
    /\ db' = [k \in Keys |-> IF bw[t][k] # None THEN Stored(bw[t][k]) ELSE db[k]]
    /\ applied' = [applied EXCEPT ![t] = IF kind[t] = "write"
                                            THEN Applied(bw[t], pending[t]) ELSE @]
    /\ bw' = [bw EXCEPT ![t] = EmptyMap]
    /\ bstate' = [bstate EXCEPT ![t] = "committed"]
    /\ events' = [events EXCEPT ![t] = Fire(t, <<"Committed">>)]
    /\ UNCHANGED <<ctl, pc, pending, lastop, cell, berr, reqs, acked, ret>>
    /\ UNCHANGED ext

\* The engine aborts a readwrite transaction by itself (the commit cannot be
\* written, the connection is closed): its writes are discarded, its
\* outstanding requests never succeed, error() is Some or None by the cause,
\* and the abort event is fired. (Once the WriteTransaction is gone nothing
\* was written through it and nobody listens: the end of its IdbTransaction
\* is then BackendComplete alone.)
BackendAbort(t, e) ==
    /\ Listening(t)
    /\ bstate[t] = "live"
    /\ bstate' = [bstate EXCEPT ![t] = "aborted"]
    /\ berr' = [berr EXCEPT ![t] = e]
    /\ bw' = [bw EXCEPT ![t] = EmptyMap]
    /\ reqs' = [reqs EXCEPT ![t] = {}]
    /\ acked' = [acked EXCEPT ![t] = @ \cup ErrAcked(t, reqs[t])]
    /\ events' = [events EXCEPT ![t] = Fire(t, <<"Aborted">>)]
    /\ UNCHANGED <<ctl, pc, pending, lastop, cell, db, applied, ret>>
    /\ UNCHANGED ext

\* A request that adds the record only under a key the store does not hold
\* (add in place of put), and reports success either way.
BackendAddSuccess(t, k) ==
    /\ CanRun(t)
    /\ k \in reqs[t]
    /\ bw' = IF bw[t][k] # None \/ db[k] # None THEN bw
              ELSE [bw EXCEPT ![t][k] = Requested(t, k)]
    /\ reqs' = [reqs EXCEPT ![t] = @ \ {k}]
    /\ acked' = [acked EXCEPT ![t] = @ \cup {k}]
    /\ UNCHANGED <<ctl, pc, txobj, db, bstate, berr, applied, ret>>
    /\ UNCHANGED ext

\* The engine executes one put request (of commit, or of IdbStore::put) and
\* fires its success event: the onsuccess closure sends on the request's
\* oneshot.
BackendPutSuccess(t, k) ==
    /\ CanRun(t)
    /\ k \in reqs[t]
    /\ bw' = [bw EXCEPT ![t][k] = Requested(t, k)]
    /\ reqs' = [reqs EXCEPT ![t] = @ \ {k}]
    /\ acked' = [acked EXCEPT ![t] = @ \cup {k}]
    /\ UNCHANGED <<ctl, pc, txobj, db, bstate, berr, applied, ret>>
    /\ UNCHANGED ext

\* One put request fails. commit() sets no onerror on the request, so its
\* oneshot is never sent on; the error event bubbles to the transaction
\* (onerror), which then aborts (onabort) with error() set.
BackendPutError(t, k) ==
    /\ CanRun(t)
    /\ k \in reqs[t]
    /\ bstate' = [bstate EXCEPT ![t] = "aborted"]
    /\ berr' = [berr EXCEPT ![t] = TRUE]
    /\ bw' = [bw EXCEPT ![t] = EmptyMap]
    /\ reqs' = [reqs EXCEPT ![t] = {}]
    /\ acked' = [acked EXCEPT ![t] = @ \cup ErrAcked(t, {k})]
    /\ events' = [events EXCEPT ![t] = Fire(t, <<"Errored", "Aborted">>)]
    /\ UNCHANGED <<ctl, pc, pending, lastop, cell, db, applied, ret>>
    /\ UNCHANGED ext

\* ------------------------------------------------------------ Write::put
\* A put that also sends the entry to the engine at once, as IdbStore::put
\* does for its one-shot transaction.
WritePutThrough(t, k, v) ==
    /\ kind[t] = "write" /\ pc[t] = "open"
    /\ nputs < budget.puts /\ nputs + nreads < budget.ops
    /\ nputs' = nputs + 1
    /\ pending' = [pending EXCEPT ![t][k] = Some(v)]
    /\ lastop' = [t |-> t, k |-> k, x |-> Some(v)]
    /\ bw' = IF bstate[t] = "live" THEN [bw EXCEPT ![t][k] = Some(v)] ELSE bw
    /\ UNCHANGED <<nextTx, nwrites, reqR, reqW, kind, pc, cell, events, db,
                   bstate, berr, reqs, acked, applied, ret>>
    /\ UNCHANGED ext

\* A put that keeps the entry a key already has (entry().or_insert()).
WritePutKeepFirst(t, k, v) ==
    /\ kind[t] = "write" /\ pc[t] = "open"
    /\ nputs < budget.puts /\ nputs + nreads < budget.ops
    /\ nputs' = nputs + 1
    /\ pending' = IF pending[t][k] # None THEN pending
                   ELSE [pending EXCEPT ![t][k] = Some(v)]
    /\ lastop' = [t |-> t, k |-> k, x |-> Some(v)]
    /\ UNCHANGED <<nextTx, nwrites, reqR, reqW, kind, pc, cell, events, backend, ret>>
    /\ UNCHANGED ext

\* pending.lock().await.insert(key, value): nothing but the map changes.
WritePut(t, k, v) ==
    /\ kind[t] = "write" /\ pc[t] = "open"
    /\ nputs < budget.puts /\ nputs + nreads < budget.ops
    /\ nputs' = nputs + 1
    /\ pending' = [pending EXCEPT ![t][k] = Some(v)]
    /\ lastop' = [t |-> t, k |-> k, x |-> Some(v)]
    /\ UNCHANGED <<nextTx, nwrites, reqR, reqW, kind, pc, cell, events, backend, ret>>
    /\ UNCHANGED ext

\* Transaction t takes no more put / del: it was consumed or dropped.
Forget(t) == lastop' = IF lastop.t = t THEN NoOp ELSE lastop

\* The WriteTransaction value is gone (commit and rollback take it by value,
\* drop ends it): pending, pair, the callbacks and the oneshots are freed.
Consumed(t) ==
    /\ pending' = [pending EXCEPT ![t] = EmptyMap]
    /\ Forget(t)
    /\ cell' = [cell EXCEPT ![t] = "Open"]
    /\ events' = [events EXCEPT ![t] = <<>>]
    /\ acked' = [acked EXCEPT ![t] = {}]
    /\ applied' = [applied EXCEPT ![t] = "none"]

\* commit or rollback returns r to its caller, having made n backend calls
\* on a transaction that was in state b when the method was called.
Return(t, c, r, b, n) ==
    /\ pc' = [pc EXCEPT ![t] = "done"]
    /\ ret' = [call |-> c, res |-> r,
               staged |-> MapKeys(pending[t]) # {}, atCall |-> b, ix |-> n,
               state |-> cell[t], err |-> berr[t], applied |-> applied[t]]
    /\ Consumed(t)

\* drop(wt) without commit or rollback.
WriteDrop(t) ==
    /\ kind[t] = "write" /\ pc[t] = "open"
    /\ ~Borrowed(t)
    /\ pc' = [pc EXCEPT ![t] = "dropped"]
    /\ Consumed(t)
    /\ UNCHANGED <<ctl, db, bstate, berr, bw, reqs, ret>>
    /\ UNCHANGED ext

\* ---------------------------------------------------- Read::has / Read::get
\* store.count_with_key(key): the number of records the object store holds
\* under the key.
CountWithKey(x) == IF x = None THEN 0 ELSE 1

\* match request.result()?.as_f64() { Some(v) if v >= 1.0 => true, _ => false }
HasResult(n) == n >= 1

\* A conversion that takes an empty array for a missing record.
GetResultEmptyIsNone(x) == IF x = None \/ x[1] = <<>> THEN None ELSE Some(x[1])

\* match request.result()? { v if v.is_undefined() => None,
\*                            v => Some(Uint8Array::new(&v).to_vec()) }
GetResult(x) == IF x = None THEN None ELSE Some(x[1])

\* What a request made inside IdbTransaction t reads for key k: the
\* transaction's own executed writes over the committed contents.
Seen(t, k) == IF bw[t][k] # None THEN Stored(bw[t][k]) ELSE db[k]

\* A lookup that never finds the key in pending.
PendingHitNever(p, k) == FALSE

\* pending.contains_key(key), pending.get(key) is Some(..)
PendingHit(p, k) == p[k] # None

\* The entry pending holds for the key when has / get is called; a
\* ReadTransaction has no pending map.
StagedAt(t, k) == IF kind[t] = "write" THEN pending[t][k] ELSE None

\* A lookup that takes a tombstone for a staged value.
DeletedNever(x) == FALSE

\* The pending entry is a tombstone.
Deleted(x) == x = Tombstone

\* WriteTransaction::has on a pending entry: true => Ok(true) for a staged
\* value; a tombstone says the key is not there.
PendingHas(x) == ~Deleted(x)

\* WriteTransaction::get on a pending entry: Some(v) => Ok(Some(v.to_vec()))
\* for a staged value; a tombstone says the key is not there.
PendingGet(x) == IF Deleted(x) THEN None ELSE Some(x[1])

\* has / get returns to its caller: Ok(f) for has, Ok(v) for get, or Err when
\* isok is FALSE. from says whether pending or the backend answered, st is
\* the pending entry at the call, h what the IdbTransaction holds for the key.
ReadReturn(t, k, o, isok, f, v, from, st, h, viaStore) ==
    rlast' = [t |-> t, k |-> k, op |-> o, ok |-> isok, found |-> f, val |-> v,
              src |-> from, staged |-> st, held |-> h, store |-> viaStore,
              again |-> (rlast.t = t /\ rlast.k = k),
              wasOk |-> (rlast.t = t /\ rlast.k = k /\ rlast.ok),
              wasFound |-> (rlast.t = t /\ rlast.k = k /\ rlast.found),
              wasVal |-> IF rlast.t = t /\ rlast.k = k /\ rlast.op = "get"
                           THEN rlast.val ELSE None,
              wasOp |-> IF rlast.t = t /\ rlast.k = k THEN rlast.op ELSE "none"]

\* rt.has(key) / rt.get(key) / wt.has(key) / wt.get(key) up to the first
\* suspension: a WriteTransaction answers from pending on a hit; otherwise
\* count_with_key / get is called on the object store, which throws on a
\* finished transaction and else leaves a request with the engine.
ReadCall(t, k, o) ==
    /\ kind[t] \in {"read", "write"} /\ pc[t] = "open"
    /\ nreads < budget.reads /\ nputs + nreads < budget.ops
    /\ rd = NoRd
    /\ nreads' = nreads + 1
    /\ IF kind[t] = "write" /\ PendingHit(pending[t], k)
         THEN /\ ReadReturn(t, k, o, TRUE,
                            IF o = "has" THEN PendingHas(pending[t][k])
                                         ELSE PendingGet(pending[t][k]) # None,
                            IF o = "get" THEN PendingGet(pending[t][k]) ELSE None,
                            "pending", pending[t][k], Seen(t, k), FALSE)
              /\ UNCHANGED rd
         ELSE IF bstate[t] # "live"
         THEN /\ ReadReturn(t, k, o, FALSE, FALSE, None, "backend", StagedAt(t, k),
                            Seen(t, k), FALSE)
              /\ UNCHANGED rd
         ELSE /\ rd' = [t |-> t, k |-> k, op |-> o, staged |-> StagedAt(t, k),
                        store |-> FALSE]
              /\ UNCHANGED rlast
    /\ UNCHANGED <<db, nextTx, nwrites, nputs, reqR, reqW, kind, pc, txobj, bstate, berr,
                   bw, reqs, acked, applied, ret, apart, budget, sp, refmap>>

\* The engine executes the request in its started transaction and fires the
\* success event; the callback sends on the oneshot and the caller reads
\* request.result(). A one-shot IdbStore::has / get then drops its transaction.
ReadAnswer ==
    /\ rd # NoRd
    /\ CanRun(rd.t)
    /\ LET x == Seen(rd.t, rd.k)
       IN  ReadReturn(rd.t, rd.k, rd.op, TRUE,
                      IF rd.op = "has" THEN HasResult(CountWithKey(x))
                                       ELSE GetResult(x) # None,
                      IF rd.op = "get" THEN GetResult(x) ELSE None,
                      "backend", rd.staged, x, rd.store)
    /\ rd' = NoRd
    /\ pc' = IF rd.store THEN [pc EXCEPT ![rd.t] = "done"] ELSE pc
    /\ UNCHANGED <<db, nextTx, nwrites, nputs, reqR, reqW, kind, txobj, bstate, berr,
                   bw, reqs, acked, applied, ret, apart, budget, nreads, sp, refmap>>

\* The transaction was aborted with the request outstanding: the request's
\* error event runs the same callback, and request.result() throws.
ReadAborted ==
    /\ rd # NoRd
    /\ bstate[rd.t] = "aborted"
    /\ ReadReturn(rd.t, rd.k, rd.op, FALSE, FALSE, None, "backend", rd.staged,
                  Seen(rd.t, rd.k), rd.store)
    /\ rd' = NoRd
    /\ pc' = IF rd.store THEN [pc EXCEPT ![rd.t] = "done"] ELSE pc
    /\ UNCHANGED <<db, nextTx, nwrites, nputs, reqR, reqW, kind, txobj, bstate, berr,
                   bw, reqs, acked, applied, ret, apart, budget, nreads, sp, refmap>>

\* ------------------------------------------- IdbStore::put / has / get
\* The caller of the store's one-shot operations makes them one after the
\* other: none is in flight.
StoreIdle == rd = NoRd /\ (sp.t = 0 \/ sp.res # "none")

\* IdbStore::put up to receiver.await: a readwrite IdbTransaction with
\* oncomplete set, and one put_with_key request with onsuccess and onerror.
StorePutCall(k, v) ==
    /\ StoreIdle
    /\ nextTx + reqR + reqW <= budget.tx
    /\ nextTx' = nextTx + 1
    /\ kind' = [kind EXCEPT ![nextTx] = "put"]
    /\ pc' = [pc EXCEPT ![nextTx] = "put_wait"]
    /\ bstate' = [bstate EXCEPT ![nextTx] = "live"]
    /\ reqs' = [reqs EXCEPT ![nextTx] = {k}]
    /\ sp' = [t |-> nextTx, k |-> k, v |-> v, res |-> "none"]
    /\ UNCHANGED <<db, nwrites, nputs, reqR, reqW, txobj, berr, bw, acked, applied, ret,
                   apart, budget, nreads, rd, rlast, refmap>>

\* receiver.await?: the request's success or error callback has sent.
StorePutAcked ==
    /\ sp.t \in Tx /\ pc[sp.t] = "put_wait"
    /\ sp.k \in acked[sp.t]
    /\ pc' = [pc EXCEPT ![sp.t] = "done_wait"]
    /\ UNCHANGED <<ctl, txobj, backend, ret, ext>>

\* txdonereceiver.await?; Ok(()): the oncomplete callback has sent.
StorePutDone ==
    /\ sp.t \in Tx /\ pc[sp.t] = "done_wait"
    /\ bstate[sp.t] = "committed"
    /\ pc' = [pc EXCEPT ![sp.t] = "done"]
    /\ sp' = [sp EXCEPT !.res = "Ok"]
    /\ refmap' = [refmap EXCEPT ![sp.k] = Some(sp.v)]
    /\ UNCHANGED <<ctl, txobj, backend, ret, apart, budget, nreads, rd, rlast>>

\* IdbStore::has / IdbStore::get up to receiver.await: a readonly
\* IdbTransaction and one count_with_key / get request.
StoreReadCall(k, o) ==
    /\ StoreIdle
    /\ nextTx + reqR + reqW <= budget.tx
    /\ nextTx' = nextTx + 1
    /\ kind' = [kind EXCEPT ![nextTx] = "read"]
    /\ pc' = [pc EXCEPT ![nextTx] = "store"]
    /\ bstate' = [bstate EXCEPT ![nextTx] = "live"]
    /\ rd' = [t |-> nextTx, k |-> k, op |-> o, staged |-> None, store |-> TRUE]
    /\ UNCHANGED <<db, nwrites, nputs, reqR, reqW, txobj, berr, bw, reqs, acked, applied,
                   ret, apart, budget, nreads, rlast, sp, refmap>>

\* ------------------------------------------------------------- Write::del
\* del stages a tombstone for the key in pending; nothing else changes.
WriteDel(t, k) ==
    /\ kind[t] = "write" /\ pc[t] = "open"
    /\ nputs < budget.puts /\ nputs + nreads < budget.ops
    /\ nputs' = nputs + 1
    /\ pending' = [pending EXCEPT ![t][k] = Tombstone]
    /\ lastop' = [t |-> t, k |-> k, x |-> Tombstone]
    /\ UNCHANGED <<nextTx, nwrites, reqR, reqW, kind, pc, cell, events, backend, ret>>
    /\ UNCHANGED ext

\* ----------------------------------------------------------- Write::commit
\* A commit without the empty-map return.
CommitNeverSkips(t) == FALSE

\* if pending.is_empty() { return Ok(()) }
CommitSkips(t) == MapKeys(pending[t]) = {}

\* An end of commit that trusts the put acknowledgements: no state check.
CommitResultNoStateCheck(state, err) ==
    IF err THEN "ErrTxError" ELSE "Ok"

\* An end of commit that looks at the state before tx.error().
CommitResultStateFirst(state, err) ==
    IF state # "Committed" THEN "ErrAborted"
    ELSE IF err THEN "ErrTxError"
    ELSE "Ok"

\* The end of commit: tx.error() first, then the state wait_until returned.
CommitResult(state, err) ==
    IF err THEN "ErrTxError"
    ELSE IF state # "Committed" THEN "ErrAborted"
    ELSE "Ok"

\* commit up to its first suspension: the empty-map return, object_store()
\* (which throws on a finished transaction), one put_with_key per entry.
WriteCommit(t) ==
    /\ kind[t] = "write" /\ pc[t] = "open"
    /\ ~Borrowed(t)
    /\ IF CommitSkips(t)
         THEN /\ Return(t, "commit", "Ok", bstate[t], 0)
              /\ UNCHANGED reqs
         ELSE IF bstate[t] # "live"
         THEN /\ Return(t, "commit", "ErrJs", bstate[t], 1)
              /\ UNCHANGED reqs
         ELSE /\ pc' = [pc EXCEPT ![t] = "commit_puts"]
              /\ reqs' = [reqs EXCEPT ![t] = MapKeys(pending[t])]
              /\ Forget(t)
              /\ UNCHANGED <<pending, cell, events, acked, applied, ret>>
    /\ UNCHANGED <<ctl, db, bstate, berr, bw>>
    /\ UNCHANGED ext

\* A join that resumes at the first oneshot sent on (select in place of
\* join_all).
CommitJoinFirst(t) ==
    /\ kind[t] = "write" /\ pc[t] = "commit_puts"
    /\ acked[t] # {}
    /\ pc' = [pc EXCEPT ![t] = "commit_wait"]
    /\ UNCHANGED <<ctl, txobj, backend, ret>>
    /\ UNCHANGED ext

\* join_all(puts).await: every put's oneshot has been sent on.
CommitJoin(t) ==
    /\ kind[t] = "write" /\ pc[t] = "commit_puts"
    /\ acked[t] = MapKeys(pending[t])
    /\ pc' = [pc EXCEPT ![t] = "commit_wait"]
    /\ UNCHANGED <<ctl, txobj, backend, ret>>
    /\ UNCHANGED ext

\* cv.wait_until(.., |state| *state != Open) and the checks after it.
CommitFinish(t) ==
    /\ kind[t] = "write" /\ pc[t] = "commit_wait"
    /\ cell[t] # "Open"
    /\ Return(t, "commit", CommitResult(cell[t], berr[t]), "live",
              1 + Cardinality(MapKeys(pending[t])))
    /\ UNCHANGED <<ctl, db, bstate, berr, bw, reqs>>
    /\ UNCHANGED ext

\* --------------------------------------------------------- Write::rollback
\* if pending.is_empty() { return Ok(()) }
RollbackSkips(t) == MapKeys(pending[t]) = {}

\* match *lock.lock().await { Committed | Aborted => return Ok(()), _ => () }
RollbackSettled(state) == state \in {"Committed", "Aborted"}

\* The end of rollback: tx.error() first, then the state wait_until returned.
RollbackResult(state, err) ==
    IF err THEN "ErrTxError"
    ELSE IF state # "Aborted" THEN "ErrAbortFailed"
    ELSE "Ok"

\* rollback up to its suspension: the two early returns, then tx.abort(),
\* which throws on a transaction that is committing or finished and
\* otherwise aborts it (error() stays None) and fires the abort event.
WriteRollback(t) ==
    /\ kind[t] = "write" /\ pc[t] = "open"
    /\ ~Borrowed(t)
    /\ IF RollbackSkips(t) \/ RollbackSettled(cell[t])
         THEN /\ Return(t, "rollback", "Ok", bstate[t], 0)
              /\ UNCHANGED bstate
         ELSE IF bstate[t] # "live"
         THEN /\ Return(t, "rollback", "ErrJs", bstate[t], 1)
              /\ UNCHANGED bstate
         ELSE /\ pc' = [pc EXCEPT ![t] = "rollback_wait"]
              /\ bstate' = [bstate EXCEPT ![t] = "aborted"]
              /\ events' = [events EXCEPT ![t] = events[t] \o <<"Aborted">>]
              /\ Forget(t)
              /\ UNCHANGED <<pending, cell, acked, applied, ret>>
    /\ UNCHANGED <<ctl, db, berr, bw, reqs>>
    /\ UNCHANGED ext

\* An end of rollback that reads the cell right after tx.abort(), without
\* waiting for the abort event.
RollbackFinishNoWait(t) ==
    /\ kind[t] = "write" /\ pc[t] = "rollback_wait"
    /\ Return(t, "rollback", RollbackResult(cell[t], berr[t]), "live", 1)
    /\ UNCHANGED <<ctl, db, bstate, berr, bw, reqs>>
    /\ UNCHANGED ext

\* cv.wait_until(.., |state| *state != Open) and the checks after it.
RollbackFinish(t) ==
    /\ kind[t] = "write" /\ pc[t] = "rollback_wait"
    /\ cell[t] # "Open"
    /\ Return(t, "rollback", RollbackResult(cell[t], berr[t]), "live", 1)
    /\ UNCHANGED <<ctl, db, bstate, berr, bw, reqs>>
    /\ UNCHANGED ext

Next ==
    \/ StoreReadRequest
    \/ StoreWriteRequest
    \/ StoreReadComplete
    \/ StoreWriteComplete
    \/ \E t \in Tx : ReadDrop(t)
    \/ \E t \in Tx, k \in Keys, v \in Vals : WritePut(t, k, v)
    \/ \E t \in Tx : WriteDrop(t)
    \/ \E t \in Tx : WriteCommit(t)
    \/ \E t \in Tx : CommitJoin(t)
    \/ \E t \in Tx : CommitFinish(t)
    \/ \E t \in Tx : WriteRollback(t)
    \/ \E t \in Tx : RollbackFinish(t)
    \/ \E t \in Tx : TxCallback(t)
    \/ \E t \in Tx : BackendComplete(t)
    \/ \E t \in Tx, e \in BOOLEAN : BackendAbort(t, e)
    \/ \E t \in Tx, k \in Keys : BackendPutSuccess(t, k)
    \/ \E t \in Tx, k \in Keys : BackendPutError(t, k)

Spec == Init /\ [][Next]_vars

\* A caller that made a future of Store::read or Store::write awaits it, and
\* the executor polls an awaited future.
FairSpec ==
    Spec /\ WF_vars(StoreReadComplete) /\ WF_vars(StoreWriteComplete)

\* The executor runs every task that is ready (the spawned tx_callback tasks,
\* a commit or rollback whose await can resume), and the engine finishes a
\* started transaction that has nothing left to do and executes the requests
\* of a started transaction.
Progress ==
    \A t \in Tx :
        /\ WF_vars(TxCallback(t))
        /\ WF_vars(CommitJoin(t))
        /\ WF_vars(CommitFinish(t))
        /\ WF_vars(RollbackFinish(t))
        /\ WF_vars(BackendComplete(t))
        /\ \A k \in Keys : WF_vars(BackendPutSuccess(t, k))

LiveSpec == Spec /\ Progress

\* The same callers, executor and engine with fewer transactions.
WaitInit == Opened /\ db = EmptyMap /\ budget = WaitBudget

WaitSpec == WaitInit /\ [][Next]_vars /\ Progress

\* What IdbStore::new may find in an existing database: nothing, or a value
\* (possibly the empty one) under the first key.
Found == {EmptyMap} \cup {[EmptyMap EXCEPT !["k1"] = Some(v)] : v \in Vals}

\* Callers that also read from their transactions and delete through them,
\* on a database that may hold data already.
RdInit == Opened /\ db \in Found /\ budget = ReadBudget

RdNext ==
    \/ Next
    \/ \E t \in Tx, k \in Keys, o \in {"has", "get"} : ReadCall(t, k, o)
    \/ ReadAnswer
    \/ ReadAborted
    \/ \E t \in Tx, k \in Keys : WriteDel(t, k)

RdSpec == RdInit /\ [][RdNext]_vars

\* A caller that uses only the one-shot operations of a fresh store.
StoreInit == Opened /\ db = EmptyMap /\ budget = StoreBudget

StoreNext ==
    \/ \E k \in Keys, v \in Vals : StorePutCall(k, v)
    \/ StorePutAcked
    \/ StorePutDone
    \/ \E k \in Keys, o \in {"has", "get"} : StoreReadCall(k, o)
    \/ ReadAnswer
    \/ \E t \in Tx : BackendComplete(t)
    \/ \E t \in Tx, e \in BOOLEAN : BackendAbort(t, e)
    \/ \E t \in Tx, k \in Keys : BackendPutSuccess(t, k)
    \/ \E t \in Tx, k \in Keys : BackendPutError(t, k)

StoreSpec == StoreInit /\ [][StoreNext]_vars

\* ------------------------------------------------------------- dispatch
\* The names dispatch is called with, in the order the listing sorts them.
NameOrder == <<"", "db", "db2">>
DbNames == {NameOrder[i] : i \in DOMAIN NameOrder}

\* The open_dbs listing: the names of the registry, sorted.
Listing(S) == SelectSeq(NameOrder, LAMBDA n : n \in S)

\* dispatch answers its caller; the call joins the history.
Respond(name, rpc, res, err, list) ==
    /\ dresp' = [rpc |-> rpc, db |-> name, res |-> res, err |-> err, list |-> list]
    /\ dlog' = Append(dlog, [rpc |-> rpc, db |-> name])

\* An open that takes any name.
DispatchOpenAnyName(name) ==
    /\ Len(dlog) < MaxCalls
    /\ open_dbs' = open_dbs \cup {name}
    /\ Respond(name, "open", "Ok", "none", <<>>)
    /\ UNCHANGED <<ctl, pc, txobj, backend, ret, budget, nreads, rd, rlast, sp, refmap,
                   numbers, uuid>>

\* dispatch(name, "open", ""): an empty name is refused; otherwise the registry
\* holds a database under the name from now on.
DispatchOpen(name) ==
    /\ Len(dlog) < MaxCalls
    /\ IF name = ""
         THEN /\ Respond(name, "open", "Err", "db_name must be non-empty", <<>>)
              /\ UNCHANGED open_dbs
         ELSE /\ open_dbs' = open_dbs \cup {name}
              /\ Respond(name, "open", "Ok", "none", <<>>)
    /\ UNCHANGED <<ctl, pc, txobj, backend, ret, budget, nreads, rd, rlast, sp, refmap,
                   numbers, uuid>>

\* dispatch(name, "close", ""): the name leaves the registry; closing a name
\* that is not open succeeds as well.
DispatchClose(name) ==
    /\ Len(dlog) < MaxCalls
    /\ open_dbs' = open_dbs \ {name}
    /\ Respond(name, "close", "Ok", "none", <<>>)
    /\ UNCHANGED <<ctl, pc, txobj, backend, ret, budget, nreads, rd, rlast, sp, refmap,
                   numbers, uuid>>

\* dispatch("", "debug", "open_dbs"): the listing of the registry.
DispatchDebug ==
    /\ Len(dlog) < MaxCalls
    /\ Respond("", "debug", "Ok", "none", Listing(open_dbs))
    /\ UNCHANGED <<ctl, pc, txobj, backend, ret, budget, nreads, rd, rlast, sp, refmap,
                   open_dbs, numbers, uuid>>

\* dispatch(name, "put", data): a name the registry does not hold is answered
\* with the not-open error; otherwise the call goes to the database (res "Db":
\* what the database answers is not part of the registry).
DispatchPut(name) ==
    /\ Len(dlog) < MaxCalls
    /\ IF name \in open_dbs
         THEN Respond(name, "put", "Db", "none", <<>>)
         ELSE Respond(name, "put", "Err", "not open", <<>>)
    /\ UNCHANGED <<ctl, pc, txobj, backend, ret, budget, nreads, rd, rlast, sp, refmap,
                   open_dbs, numbers, uuid>>

\* The process starts with an empty registry.
DispatchInit == Opened /\ db = EmptyMap /\ budget = StoreBudget

DispatchNext ==
    \/ \E n \in DbNames : DispatchOpen(n)
    \/ \E n \in DbNames : DispatchClose(n)
    \/ DispatchDebug
    \/ \E n \in DbNames : DispatchPut(n)

DispatchSpec == DispatchInit /\ [][DispatchNext]_vars

\* ---------------------------------------------------------- util::uuid
\* random_numbers: &[u8; 36]
UuidLen == 36
ByteMax == 255
UuidIx == 0..(UuidLen - 1)
Byte == 0..ByteMax

\* const UUID_V4_FORMAT: [UuidElements; 36]
UUID_V4_FORMAT ==
    <<"Random09AF", "Random09AF", "Random09AF", "Random09AF",
      "Random09AF", "Random09AF", "Random09AF", "Random09AF",
      "Hyphen",
      "Random09AF", "Random09AF", "Random09AF", "Random09AF",
      "Hyphen",
      "Version",
      "Random09AF", "Random09AF", "Random09AF",
      "Hyphen",
      "Random89AB",
      "Random09AF", "Random09AF", "Random09AF",
      "Hyphen",
      "Random09AF", "Random09AF", "Random09AF", "Random09AF",
      "Random09AF", "Random09AF", "Random09AF", "Random09AF",
      "Random09AF", "Random09AF", "Random09AF", "Random09AF">>

\* a & b on unsigned integers.
RECURSIVE BitAnd(_, _)
BitAnd(a, b) ==
    IF a = 0 \/ b = 0 THEN 0
    ELSE (a % 2) * (b % 2) + 2 * BitAnd(a \div 2, b \div 2)

DecimalChars == <<"0", "1", "2", "3", "4", "5", "6", "7", "8", "9">>
LetterChars ==
    <<"a", "b", "c", "d", "e", "f", "g", "h", "i", "j", "k", "l", "m",
      "n", "o", "p", "q", "r", "s", "t", "u", "v", "w", "x", "y", "z">>

\* char::from_digit(num, radix): None when num is not a digit of the radix,
\* else '0'..'9' and then 'a'.. in lower case. Some(c) is <<c>>, None is <<>>.
FromDigit(num, radix) ==
    IF num >= radix THEN <<>>
    ELSE IF num < Len(DecimalChars) THEN <<DecimalChars[num + 1]>>
    ELSE <<LetterChars[num - Len(DecimalChars) + 1]>>

\* UuidElements::Random09AF => char::from_digit((b & 0b1111) as u32, 16)
Random09AF(b) == FromDigit(BitAnd(b, 15), 16)

\* A variant digit that keeps four random bits.
Random89ABFourBits(b) == FromDigit(BitAnd(b, 15) + 8, 16)

\* UuidElements::Random89AB => char::from_digit((b & 0b11) as u32 + 8, 16)
Random89AB(b) == FromDigit(BitAnd(b, 3) + 8, 16)

\* One element of the format, before .expect(ERROR_MAKE_CHAR).
UuidChar(elem, b) ==
    CASE elem = "Random09AF" -> Random09AF(b)
      [] elem = "Random89AB" -> Random89AB(b)
      [] elem = "Version" -> <<"4">>
      [] elem = "Hyphen" -> <<"-">>

\* .expect(ERROR_MAKE_CHAR) failed: the call panics.
Panicked == <<"panic">>

\* uuid_from_numbers: the characters of the 36 elements collected into a
\* String, indexed from 0 like the bytes; expect panics on a None.
uuid_from_numbers(random_numbers) ==
    LET chars == [i \in UuidIx |-> UuidChar(UUID_V4_FORMAT[i + 1], random_numbers[i])]
    IN  IF \E i \in UuidIx : chars[i] = <<>>
          THEN Panicked
          ELSE [i \in UuidIx |-> chars[i][1]]

\* Arrays of 36 bytes: every byte value at every index among bytes with the
\* opposite bits, arrays of one repeated byte, and arrays whose bytes all
\* differ from their neighbours.
OneOff == {[i \in UuidIx |-> IF i = p THEN b ELSE ByteMax - b] :
              p \in UuidIx, b \in Byte}
Uniform == {[i \in UuidIx |-> b] : b \in Byte}
Ramp == {[i \in UuidIx |-> (b + 7 * i) % (ByteMax + 1)] : b \in Byte}
RandomNumbers == OneOff \cup Uniform \cup Ramp

\* uuid() with what make_random_numbers left in the array.
Uuid(ns) ==
    /\ uuid = NoUuid
    /\ numbers' = ns
    /\ uuid' = uuid_from_numbers(ns)
    /\ UNCHANGED <<ctl, pc, txobj, backend, ret, budget, nreads, rd, rlast, sp, refmap,
                   open_dbs, dlog, dresp>>

UuidInit == Opened /\ db = EmptyMap /\ budget = StoreBudget

UuidNext == \E ns \in RandomNumbers : Uuid(ns)

UuidSpec == UuidInit /\ [][UuidNext]_vars

\* ------------------------------------------------------------ isolation
\* C1: while a Read transaction is open no Store::write resolves: no open
\* WriteTransaction was created after a ReadTransaction that is still open
\* (slots are numbered in creation order).
C1_NoWriteWhileReadOpen ==
    \A w \in OpenWriters : \A r \in OpenReaders : ~(r < w)

\* C2: while a Write transaction is open no Store::write and no Store::read
\* resolves: at most one WriteTransaction is open, and no open
\* ReadTransaction was created after a WriteTransaction that is still open.
C2_NothingOpensWhileWriteOpen ==
    /\ Cardinality(OpenWriters) <= 1
    /\ \A w \in OpenWriters : \A r \in OpenReaders : ~(w < r)

\* C3: with no Write transaction open, a requested Store::read can resolve
\* at once, however many Read transactions are open.
C3_ReadersNeverBlockReaders ==
    (reqR > 0 /\ OpenWriters = {}) => ENABLED StoreReadComplete

\* Two ReadTransactions open at once: the later resolved beside the earlier.
C3_TwoReadersOpen ==
    Cardinality(OpenReaders) >= 2 /\ OpenWriters = {}

\* C4: a requested Store::write resolves once no transaction is open, and a
\* requested Store::read resolves once no Write transaction is open.
C4_RequestCompletesOnceUnblocked ==
    /\ (reqW > 0 /\ OpenReaders = {} /\ OpenWriters = {}) ~> (reqW = 0)
    /\ (reqR > 0 /\ OpenWriters = {}) ~> (reqR = 0)

\* A reader was dropped, a writer then opened and was rolled back, and a
\* reader opened after it.
C4_OpenedAfterBlockerGone ==
    \E r0 \in Tx, w \in Tx, r \in OpenReaders :
        /\ r0 < w /\ w < r
        /\ kind[r0] = "read" /\ pc[r0] = "dropped"
        /\ kind[w] = "write" /\ pc[w] = "done" /\ ret.call = "rollback"

\* ------------------------------------------------------- the write buffer
\* C5: put only stages: while a WriteTransaction is open and commit has not
\* been called, its IdbTransaction holds no write and no request of it, and
\* if that IdbTransaction has committed by itself it put nothing into db.
C5_PutOnlyStages ==
    \A t \in Tx :
        (kind[t] = "write" /\ pc[t] = "open")
            => (bw[t] = EmptyMap /\ reqs[t] = {} /\ applied[t] = "none")

\* An open WriteTransaction stages a value for a key that the store, whose
\* IdbTransaction has already committed by itself, does not hold.
C5_StagedButInvisible ==
    \E t \in Tx, k \in Keys :
        /\ kind[t] = "write" /\ pc[t] = "open"
        /\ pending[t][k] # None /\ db[k] # pending[t][k]
        /\ bstate[t] = "committed"

\* C6: a commit of staged entries is atomic: when it returns Ok the
\* IdbTransaction's commit put every pending entry into db, when it returns
\* an error it put none; no IdbTransaction ever commits a part of them.
C6_CommitAtomic ==
    /\ (ret.call = "commit" /\ ret.staged)
          => (IF ret.res = "Ok" THEN ret.applied = "all" ELSE ret.applied = "none")
    /\ \A t \in Tx : applied[t] # "part"

\* Both of two puts were acknowledged, then the transaction aborted and
\* commit returned an error.
C6_AckedThenAborted ==
    /\ ret.call = "commit" /\ ret.ix = 3
    /\ ret.res \in {"ErrAborted", "ErrTxError"}
    /\ ret.state = "Aborted"

\* C7: a rolled back WriteTransaction changes nothing later transactions
\* see: its IdbTransaction executes no write, and if it committed by itself
\* before rollback ended it put nothing into db.
C7_RollbackLeavesState ==
    /\ ret.call = "rollback" => ret.applied = "none"
    /\ \A t \in Tx :
          (kind[t] = "write" /\ pc[t] = "rollback_wait")
              => (bw[t] = EmptyMap /\ applied[t] = "none")

\* A rollback of staged entries that aborted the transaction and returned Ok.
C7_RolledBackStaged ==
    ret.call = "rollback" /\ ret.staged /\ ret.res = "Ok" /\ ret.ix = 1

\* ---------------------------------------------------- commit and rollback
\* C8: commit and rollback of an empty pending map return Ok and make no
\* backend call, whatever state the IdbTransaction is in.
C8_EmptyNeverFails ==
    (ret.call \in {"commit", "rollback"} /\ ~ret.staged)
        => (ret.res = "Ok" /\ ret.ix = 0)

\* A commit of an empty pending map on an aborted IdbTransaction.
C8_EmptyOnAborted ==
    ret.call = "commit" /\ ~ret.staged /\ ret.atCall = "aborted"

\* C9: a commit of staged entries returns Ok only if the outcome it waited
\* for is Committed, an error if it is Aborted or Errored, and the
\* transaction's own error whenever error() is Some after the puts were
\* acknowledged.
C9_CommitResult ==
    (ret.call = "commit" /\ ret.staged)
        => /\ ret.res = "Ok" => ret.state = "Committed"
           /\ ret.state \in {"Aborted", "Errored"} => ret.res # "Ok"
           /\ (ret.err /\ ret.ix > 1) => ret.res = "ErrTxError"

\* The puts were acknowledged, the transaction aborted with an error, and
\* commit returned that error.
C9_TxErrorReturned ==
    ret.call = "commit" /\ ret.ix > 1 /\ ret.err /\ ret.res = "ErrTxError"

\* C10: a rollback called when the IdbTransaction has already committed or
\* aborted by itself returns Ok.
C10_RollbackAfterOutcomeOk ==
    (ret.call = "rollback" /\ ret.atCall \in {"committed", "aborted"})
        => ret.res = "Ok"

\* C11: a rollback of staged entries whose cell is neither Committed nor
\* Aborted calls tx.abort(); when the call is accepted the IdbTransaction is
\* aborted while rollback waits, rollback returns only after the cell has left
\* Open, and whenever it returns Ok the outcome it read is Aborted.
C11_RollbackAbortsAndWaits ==
    /\ \A t \in Tx : pc[t] = "rollback_wait" => bstate[t] = "aborted"
    /\ (ret.call = "rollback" /\ ret.staged /\ ret.ix = 1)
          => /\ ret.atCall = "live" => ret.state # "Open"
             /\ ret.res = "Ok" => ret.state = "Aborted"
             /\ ret.state # "Aborted" => ret.res \in {"ErrJs", "ErrTxError", "ErrAbortFailed"}

\* A rollback whose tx.abort() was accepted, that waited and read Aborted.
C11_AbortRequestedAndSeen ==
    /\ ret.call = "rollback" /\ ret.staged /\ ret.atCall = "live"
    /\ ret.state = "Aborted" /\ ~ret.err /\ ret.res = "Ok"

C14_PendingFirst ==
    (rlast.t \in Tx /\ kind[rlast.t] = "write")
        => /\ (rlast.staged # None /\ rlast.staged # Tombstone)
                => /\ rlast.ok /\ rlast.found /\ rlast.src = "pending"
                   /\ rlast.op = "get" => rlast.val = rlast.staged
           /\ (rlast.staged = None /\ rlast.ok)
                => /\ rlast.src = "backend"
                   /\ rlast.found = (rlast.held # None)
                   /\ rlast.op = "get" => rlast.val = rlast.held

\* get(k) returned the staged value while the store holds another one.
C14_StagedOverStored ==
    /\ rlast.t \in Tx /\ kind[rlast.t] = "write"
    /\ rlast.op = "get" /\ rlast.src = "pending"
    /\ rlast.val = rlast.staged
    /\ rlast.held # None /\ rlast.held # rlast.staged

\* ------------------------------------------------ the one-shot operations
\* C15: on a fresh store used through IdbStore::put / has / get alone, each
\* has and get that returns agrees with the reference map of the puts that
\* returned Ok, in which the last put of a key wins: has is true exactly for
\* the keys put, and get returns the value of the latest put of the key.
\* (The latest has / get is compared until the next put is made.)
C15_AgreesWithReferenceMap ==
    (rlast.store /\ rlast.ok /\ sp.t < rlast.t)
        => /\ rlast.found = (refmap[rlast.k] # None)
           /\ rlast.op = "get" => rlast.val = refmap[rlast.k]

\* Two puts returned Ok and the get after them returned a value.
C15_GetAfterTwoPuts ==
    /\ rlast.store /\ rlast.ok /\ rlast.op = "get" /\ rlast.t = 3
    /\ sp.res = "Ok" /\ sp.t = 2 /\ kind[1] = "put"
    /\ rlast.val = refmap[rlast.k] /\ rlast.val # None

\* C16: get tells a missing key from a key stored with the empty value: the
\* get (has) made after put(k, v) returned Ok returns Some(v) (true) for
\* every v, the empty one included, and get returns None exactly when the
\* store holds nothing under the key.
C16_EmptyIsNotAbsent ==
    (rlast.store /\ rlast.ok)
        => /\ (sp.res = "Ok" /\ sp.k = rlast.k /\ sp.t < rlast.t)
                => /\ rlast.found
                   /\ rlast.op = "get" => rlast.val = Some(sp.v)
           /\ rlast.op = "get" => ((rlast.val = None) <=> (rlast.held = None))

\* put(k, empty) returned Ok and the get of k after it returned Some(empty).
C16_GotEmptyValue ==
    /\ rlast.store /\ rlast.ok /\ rlast.op = "get"
    /\ sp.res = "Ok" /\ sp.k = rlast.k /\ sp.t < rlast.t /\ sp.v = <<>>
    /\ rlast.val = Some(<<>>) /\ rlast.val # None

\* C17: IdbStore::put returns Ok only when its IdbTransaction completed, and
\* when the IdbTransaction has aborted the call can still go on to return.
C17_PutReturnsCommitResult ==
    /\ (sp.t \in Tx /\ sp.res = "Ok") => bstate[sp.t] = "committed"
    /\ (sp.t \in Tx /\ sp.res = "none" /\ bstate[sp.t] = "aborted")
          => (ENABLED StorePutAcked \/ ENABLED StorePutDone)

\* C18: two has / get calls for one key on the same open ReadTransaction that
\* both answer give the same answer (the same presence, and the same value when
\* both are get), whatever writers stage, request or commit between the calls.
C18_ReadSnapshot ==
    (rlast.again /\ rlast.t \in Tx /\ kind[rlast.t] = "read" /\ rlast.ok /\ rlast.wasOk)
        => /\ rlast.found = rlast.wasFound
           /\ (rlast.op = "get" /\ rlast.wasOp = "get") => rlast.val = rlast.wasVal

\* A ReadTransaction answered twice for one key while a WriteTransaction with
\* another value staged for that key had its commit under way.
C18_RereadDuringCommit ==
    /\ rlast.again /\ rlast.t \in Tx /\ kind[rlast.t] = "read" /\ rlast.ok /\ rlast.wasOk
    /\ rlast.op = "get" /\ rlast.wasOp = "get" /\ rlast.val = rlast.wasVal
    /\ \E u \in Tx : /\ kind[u] = "write" /\ pc[u] \in {"commit_puts", "commit_wait"}
                     /\ bstate[u] = "live"
                     /\ pending[u][rlast.k] # None
                     /\ Stored(pending[u][rlast.k]) # rlast.held

\* ---------------------------------------------------------------- dispatch
\* The names opened and not closed since, by the history of the calls: an
\* open of a non-empty name adds it, a close removes it.
RECURSIVE OpenedNotClosed(_)
OpenedNotClosed(log) ==
    IF log = <<>> THEN {}
    ELSE LET before == OpenedNotClosed(SubSeq(log, 1, Len(log) - 1))
             c == log[Len(log)]
         IN  IF c.rpc = "open" /\ c.db # "" THEN before \cup {c.db}
             ELSE IF c.rpc = "close" THEN before \ {c.db}
             ELSE before

\* C19: the open_dbs listing is the set of names opened and not closed since;
\* close always succeeds, open of the empty name fails with "db_name must be
\* non-empty", a put against a name that is not open fails with the not-open
\* error, and none of these three (nor the listing) changes the set.
C19_RegistryTracksOpenClose ==
    /\ [](/\ open_dbs = OpenedNotClosed(dlog)
          /\ dresp.rpc = "debug"
                => (dresp.res = "Ok" /\ dresp.list = Listing(OpenedNotClosed(dlog)))
          /\ dresp.rpc = "close" => dresp.res = "Ok"
          /\ dresp.rpc = "open"
                => IF dresp.db = ""
                     THEN dresp.res = "Err" /\ dresp.err = "db_name must be non-empty"
                     ELSE dresp.res = "Ok"
          /\ (dresp.rpc = "put"
                /\ dresp.db \notin OpenedNotClosed(SubSeq(dlog, 1, Len(dlog) - 1)))
                => (dresp.res = "Err" /\ dresp.err = "not open"))
    /\ [][(\/ dresp'.rpc = "close" /\ dresp'.db \notin open_dbs
           \/ dresp'.rpc = "open" /\ dresp'.db = ""
           \/ dresp'.rpc \in {"put", "debug"})
             => open_dbs' = open_dbs]_vars

\* db and db2 were opened, db was closed twice, and the listing shows db2.
C19_ListedAfterDoubleClose ==
    /\ Len(dlog) = 5
    /\ dlog[1] = [rpc |-> "open", db |-> "db"]
    /\ dlog[2] = [rpc |-> "open", db |-> "db2"]
    /\ dlog[3] = [rpc |-> "close", db |-> "db"]
    /\ dlog[4] = [rpc |-> "close", db |-> "db"]
    /\ dresp.rpc = "debug" /\ dresp.res = "Ok" /\ dresp.list = <<"db2">>

\* ------------------------------------------------------------------- uuid
LowerHex ==
    <<"0", "1", "2", "3", "4", "5", "6", "7", "8", "9", "a", "b", "c", "d", "e", "f">>
VariantChars == <<"8", "9", "a", "b">>
ZeroUuid ==
    <<"0", "0", "0", "0", "0", "0", "0", "0", "-", "0", "0", "0", "0", "-",
      "4", "0", "0", "0", "-", "8", "0", "0", "0", "-",
      "0", "0", "0", "0", "0", "0", "0", "0", "0", "0", "0", "0">>

\* C20: for every array of 36 bytes uuid_from_numbers returns, without
\* panicking, 36 characters: '-' at 8, 13, 18, 23, '4' at 14, at 19 the
\* character for 8 plus the low two bits of byte 19, elsewhere the hexadecimal
\* digit of the low four bits of the byte; all-zero input gives
\* 00000000-0000-4000-8000-000000000000.
C20_UuidV4Format ==
    uuid # NoUuid
        => /\ uuid # Panicked
           /\ DOMAIN uuid = 0..35
           /\ \A i \in 0..35 :
                 uuid[i] = IF i \in {8, 13, 18, 23} THEN "-"
                           ELSE IF i = 14 THEN "4"
                           ELSE IF i = 19 THEN VariantChars[(numbers[19] % 4) + 1]
                           ELSE LowerHex[(numbers[i] % 16) + 1]
           /\ (\A i \in 0..35 : numbers[i] = 0)
                 => \A i \in 0..35 : uuid[i] = ZeroUuid[i + 1]

\* A uuid was made from bytes with bits set above the ones that are used.
C20_HighBitsDropped ==
    /\ uuid # NoUuid /\ uuid # Panicked
    /\ numbers[19] = 255 /\ uuid[19] = "b"
    /\ numbers[0] = 255 /\ uuid[0] = "f"
    /\ numbers[14] = 255 /\ uuid[14] = "4"

\* ------------------------------------------------- the outcome cell, waits
\* C21: the outcome cell of a WriteTransaction is mutated once: while the
\* transaction exists, a cell that is no longer Open is never changed by a
\* later terminal event.
C21_CellSetOnce ==
    [][\A t \in Tx :
          (CallbacksAlive(t) /\ pc'[t] = pc[t] /\ cell[t] # "Open")
              => cell'[t] = cell[t]]_vars

\* C22: the oneshot of a request is sent on whether the request succeeds or
\* fails, so a commit waiting for its puts resumes when one of them failed:
\* a commit whose IdbTransaction was aborted during the put waits leaves them.
C22_CommitResumesWhenPutFails ==
    \A t \in Tx :
        (kind[t] = "write" /\ pc[t] = "commit_puts" /\ bstate[t] = "aborted")
            ~> (pc[t] # "commit_puts")

\* C23: a commit with staged entries issues one put request per entry, and
\* its wait on the outcome cell begins only when every one of them has been
\* acknowledged, in whatever order the acknowledgements came.
C23_OutcomeWaitAfterAllAcks ==
    /\ [][\A t \in Tx :
             (kind[t] = "write" /\ pc[t] = "open" /\ pc'[t] = "commit_puts")
                 => (reqs'[t] = MapKeys(pending[t]) /\ acked'[t] = {})]_vars
    /\ [](\A t \in Tx :
             (kind[t] = "write" /\ pc[t] = "commit_puts")
                 => /\ reqs[t] \cap acked[t] = {}
                    /\ reqs[t] \cup acked[t] \subseteq MapKeys(pending[t])
                    /\ bstate[t] = "live" => reqs[t] \cup acked[t] = MapKeys(pending[t]))
    /\ [][\A t \in Tx :
             (kind[t] = "write" /\ pc[t] = "commit_puts" /\ pc'[t] # "commit_puts")
                 => (pc'[t] = "commit_wait" /\ acked[t] = MapKeys(pending[t]))]_vars
    /\ [](\A t \in Tx :
             (kind[t] = "write" /\ pc[t] = "commit_wait")
                 => acked[t] = MapKeys(pending[t]))

\* A commit of two entries waits on the outcome cell, both puts acknowledged.
C23_WaitingAfterTwoAcks ==
    \E t \in Tx :
        /\ kind[t] = "write" /\ pc[t] = "commit_wait"
        /\ MapKeys(pending[t]) = Keys
        /\ acked[t] = Keys
        /\ cell[t] = "Open"

\* C24: no terminal event is lost to a waiter: a commit or rollback that
\* waits on the outcome cell returns, whether the terminal event of its
\* IdbTransaction was fired before the wait began (also during the put waits
\* of the commit) or after, and the state it returns with is not Open.
C24_TerminalEventReachesWaiter ==
    /\ \A t \in Tx :
          (kind[t] = "write" /\ pc[t] \in {"commit_wait", "rollback_wait"})
              ~> (pc[t] = "done")
    /\ []((ret.call \in {"commit", "rollback"} /\ ret.staged /\ ret.atCall = "live")
              => ret.state # "Open")

\* A commit returned from its wait on the outcome cell with the state of a
\* terminal event.
C24_WaiterSawOutcome ==
    /\ ret.call = "commit" /\ ret.staged /\ ret.atCall = "live"
    /\ ret.state = "Committed" /\ ret.res = "Ok"
    /\ \E t \in Tx : kind[t] = "write" /\ pc[t] = "done" /\ bstate[t] = "committed"

\* ------------------------------------------------ dropped WriteTransactions
\* C25: a WriteTransaction dropped without commit or rollback changes nothing
\* other transactions can see: nothing it staged was sent to the engine, the
\* end of its IdbTransaction (an auto-commit included) leaves the store as it
\* was, and a later get on a ReadTransaction returns what the store held.
C25_DroppedWriterChangesNothing ==
    /\ [](\A t \in Tx :
             (kind[t] = "write" /\ pc[t] = "dropped")
                 => (bw[t] = EmptyMap /\ reqs[t] = {} /\ applied[t] = "none"))
    /\ [][\A t \in Tx :
             (kind[t] = "write" /\ pc[t] = "open" /\ pc'[t] = "dropped")
                 => (db' = db /\ bw[t] = EmptyMap /\ reqs[t] = {})]_vars
    /\ [][\A t \in Tx :
             (kind[t] = "write" /\ pc[t] = "dropped" /\ bstate'[t] # bstate[t])
                 => db' = db]_vars
    /\ []((/\ nwrites = budget.writes
           /\ \A u \in Tx : kind[u] = "write" => pc[u] = "dropped"
           /\ rlast.t \in Tx /\ kind[rlast.t] = "read"
           /\ rlast.ok /\ rlast.op = "get")
              => rlast.val = db[rlast.k])

\* A WriteTransaction with a staged entry was dropped, its IdbTransaction
\* committed by itself, and a ReadTransaction opened afterwards got the value
\* the store held all along.
C25_ReadAfterDroppedWriter ==
    /\ nputs >= 1
    /\ rlast.t \in Tx /\ kind[rlast.t] = "read"
    /\ rlast.ok /\ rlast.op = "get" /\ rlast.val = db[rlast.k]
    /\ \E t \in Tx : /\ kind[t] = "write" /\ pc[t] = "dropped"
                     /\ bstate[t] = "committed"
                     /\ t < rlast.t

=============================================================================
